---- MODULE Spec2Model ----
(***************************************************************************)
(* Model of manage_dataset.py: a command-line tool that administers a      *)
(* dataset repository on a remote hub.  One behaviour is one invocation of *)
(* the script (process-per-command): the dispatch in __main__ picks a      *)
(* handler, the handler runs step by step, every call into the hub client  *)
(* or the datasets library is a step whose result (a return value or a     *)
(* raised exception) is chosen by the environment.                         *)
(*                                                                         *)
(* Strings the code computes on (paths, markers, confirmation answers) are *)
(* sequences of one-character strings, so that substring tests, split(),   *)
(* int(), lower() and the 06d format are computed as Python computes them. *)
(***************************************************************************)
EXTENDS Integers, Sequences, FiniteSets, TLC

VARIABLES
    pc,               \* position of the process
    argv,             \* the command and its parsed arguments
    all_files,        \* delete_episodes/list_episodes: the listing returned
    episode_indices,  \* delete_episodes: argument
    files_to_delete,  \* delete_episodes: the selection
    pos,              \* delete_episodes: position of the deletion loop
    deleted,          \* remote effect: paths removed from the repository
    tag_name,         \* create_tag/delete_tag: argument
    result,           \* list_episodes: <<returned list>>, or <<>> if none
    exc,              \* the unhandled exception that ended the process
    source_repo_id, target_repo_id, output_repo_id,   \* merge_datasets
    target_dataset, source_dataset, merged_dataset,   \* merge_datasets
    confirm,          \* answers read by input(), in order
    prompts,          \* prompts shown by input(), in order
    calls,            \* calls issued to the remote service, in order
    out               \* lines printed, in order

epVars == <<all_files, episode_indices, files_to_delete, pos, deleted>>
mergeVars == <<source_repo_id, target_repo_id, output_repo_id,
               target_dataset, source_dataset, merged_dataset>>
ioVars == <<confirm, prompts, calls, out>>
vars == <<pc, argv, epVars, tag_name, result, exc, mergeVars, ioVars>>

----------------------------------------------------------------------------
(* Bounds of the model *)

MaxFiles == 3     \* longest file listing the service returns
MaxIdx == 2     \* longest episode index sequence on the command line

----------------------------------------------------------------------------
(* Python string primitives over sequences of characters *)

Digits == <<"0", "1", "2", "3", "4", "5", "6", "7", "8", "9">>

IsDigit(c) == \E d \in 1..10 : Digits[d] = c

DigitVal(c) == (CHOOSE d \in 1..10 : Digits[d] = c) - 1

\* Python: t in s
Contains(s, t) ==
    \E k \in 0..(Len(s) - Len(t)) : SubSeq(s, k + 1, k + Len(t)) = t

\* Python: s.endswith(t)
EndsWith(s, t) ==
    /\ Len(t) <= Len(s)
    /\ SubSeq(s, Len(s) - Len(t) + 1, Len(s)) = t

\* Python: s.find(t) + 1, i.e. the 1-based start of the first occurrence, 0 if none
Find(s, t) ==
    IF Contains(s, t)
    THEN CHOOSE k \in 1..(Len(s) - Len(t) + 1) :
            /\ SubSeq(s, k, k + Len(t) - 1) = t
            /\ \A j \in 1..(k - 1) : SubSeq(s, j, j + Len(t) - 1) # t
    ELSE 0

\* Python: s.split(sep), for a non-empty sep
RECURSIVE Split(_, _)
Split(s, sep) ==
    LET k == Find(s, sep)
    IN  IF k = 0 THEN <<s>>
        ELSE <<SubSeq(s, 1, k - 1)>> \o Split(SubSeq(s, k + Len(sep), Len(s)), sep)

LowerOf(c) ==
    CASE c = "Y" -> "y" [] c = "E" -> "e" [] c = "S" -> "s"
      [] c = "N" -> "n" [] c = "O" -> "o" [] OTHER -> c

\* Python: s.lower()
Lower(s) == [k \in 1..Len(s) |-> LowerOf(s[k])]

IsSpace(c) == c \in {" ", "\t", "\n"}

\* Python: s.strip()
RECURSIVE Strip(_)
Strip(s) ==
    IF s = <<>> THEN s
    ELSE IF IsSpace(s[1]) THEN Strip(Tail(s))
    ELSE IF IsSpace(s[Len(s)]) THEN Strip(SubSeq(s, 1, Len(s) - 1))
    ELSE s

\* digits with single underscores between them, as int() accepts
IsDigitString(s) ==
    /\ s # <<>>
    /\ IsDigit(s[1]) /\ IsDigit(s[Len(s)])
    /\ \A k \in 1..Len(s) : IsDigit(s[k]) \/ s[k] = "_"
    /\ \A k \in 1..(Len(s) - 1) : ~(s[k] = "_" /\ s[k + 1] = "_")

Unsigned(s) == IF s # <<>> /\ s[1] \in {"+", "-"} THEN Tail(s) ELSE s

\* Python: int(s) does not raise ValueError
IntParses(s) == IsDigitString(Unsigned(Strip(s)))

RECURSIVE DigitsValue(_)
DigitsValue(s) ==
    IF s = <<>> THEN 0
    ELSE IF s[Len(s)] = "_" THEN DigitsValue(SubSeq(s, 1, Len(s) - 1))
    ELSE 10 * DigitsValue(SubSeq(s, 1, Len(s) - 1)) + DigitVal(s[Len(s)])

\* Python: int(s), where IntParses(s)
IntOf(s) ==
    LET t == Strip(s)
    IN  IF t[1] = "-" THEN 0 - DigitsValue(Tail(t)) ELSE DigitsValue(Unsigned(t))

RECURSIVE Decimal(_)
Decimal(n) ==
    IF n < 10 THEN <<Digits[n + 1]>>
    ELSE Decimal(n \div 10) \o <<Digits[(n % 10) + 1]>>

RECURSIVE ZeroPad(_, _)
ZeroPad(s, w) == IF Len(s) >= w THEN s ELSE ZeroPad(<<"0">> \o s, w)

FieldWidth == 6

\* Python: f'{idx:06d}' -- zero padded to a MINIMUM width, the sign included
Fmt06d(idx) ==
    IF idx >= 0 THEN ZeroPad(Decimal(idx), FieldWidth)
    ELSE <<"-">> \o ZeroPad(Decimal(0 - idx), FieldWidth - 1)

EPISODE_ == <<"e", "p", "i", "s", "o", "d", "e", "_">>
PARQUET == <<".", "p", "a", "r", "q", "u", "e", "t">>
MP4 == <<".", "m", "p", "4">>
YES == <<"y", "e", "s">>

\* f'episode_{idx:06d}'
episode_pattern(idx) == EPISODE_ \o Fmt06d(idx)

----------------------------------------------------------------------------
(* What the environment can supply *)

REPO_ID == "argus-systems/pickup-carrot-openpi"

None == "<None>"

\* 'episode_' + digits + suffix
Path(digits, suffix) == EPISODE_ \o digits \o suffix

CAM1 == <<"_", "c", "a", "m", "1">>
V2 == <<"_", "v", "2">>

P3 == Path(Fmt06d(3), PARQUET)   \* episode_000003.parquet
P3cam == Path(Fmt06d(3), CAM1 \o MP4)   \* episode_000003_cam1.mp4
P13 == Path(Fmt06d(13), PARQUET)   \* episode_000013.parquet
P1000000 == Path(Fmt06d(1000000), PARQUET)   \* episode_1000000.parquet
P3v2 == Path(Fmt06d(3), V2 \o PARQUET)   \* episode_000003_v2.parquet
STATS == <<"s", "t", "a", "t", "s">> \o PARQUET   \* stats.parquet

Paths == {P3, P3cam, P13, P1000000, P3v2, STATS}

Indices == {3, 100000}

Answers == {YES, <<"Y", "E", "S">>, <<"n", "o">>, <<"y", "e", "s", " ">>}

TagNames == {"v1.0", "v1.1"}

Repos == {REPO_ID, "username/source-dataset", "username/merged-dataset"}

Datasets ==
    { [rows |-> <<1, 2>>, features |-> "A"],
      [rows |-> <<3>>,    features |-> "A"],
      [rows |-> <<4>>,    features |-> "B"] }

NoDataset == [rows |-> <<>>, features |-> None]

SeqsUpTo(S, n) == UNION {[1..k -> S] : k \in 0..n}

\* a repository lists each of its files once, in an order the service chooses
Listings ==
    {l \in SeqsUpTo(Paths, MaxFiles) :
        \A a, b \in 1..Len(l) : a # b => l[a] # l[b]}

IndexSeqs == SeqsUpTo(Indices, MaxIdx)

----------------------------------------------------------------------------
(* Pure parts of the handlers *)

\* [f for f in files if pattern in f]
Matching(files, pattern) == SelectSeq(files, LAMBDA f : Contains(f, pattern))

\* delete_episodes: the loop that builds files_to_delete
RECURSIVE SelectFiles(_, _)
SelectFiles(files, indices) ==
    IF indices = <<>> THEN <<>>
    ELSE Matching(files, episode_pattern(Head(indices)))
            \o SelectFiles(files, Tail(indices))

\* delete_episodes: the grouped breakdown printed before the prompt
Breakdown(selection, indices) ==
    [k \in 1..Len(indices) |->
        <<"Episode", indices[k], Matching(selection, episode_pattern(indices[k]))>>]

\* list_episodes: parquet_files
ParquetFiles(files) ==
    SelectSeq(files, LAMBDA f : EndsWith(f, PARQUET) /\ Contains(f, EPISODE_))

\* list_episodes: f.split('episode_')[1].split('.')[0]
EpisodeField(f) == Split(Split(f, EPISODE_)[2], <<".">>)[1]

SeqRange(s) == {s[k] : k \in 1..Len(s)}

\* Python: sorted(S) for a set of integers
RECURSIVE Sorted(_)
Sorted(S) ==
    IF S = {} THEN <<>>
    ELSE LET m == CHOOSE x \in S : \A y \in S : x <= y
         IN  <<m>> \o Sorted(S \ {m})

\* list_episodes: episode_numbers, where every field parses
EpisodeNumbers(files) ==
    Sorted({IntOf(EpisodeField(f)) : f \in SeqRange(ParquetFiles(files))})

\* list_episodes: the per-episode lines
EpisodeLines(files, numbers) ==
    [k \in 1..Len(numbers) |->
        <<"Episode", numbers[k], Len(Matching(files, episode_pattern(numbers[k])))>>]

\* variant: the answer is stripped before the comparison
Affirmative_stripped(answer) == Strip(Lower(answer)) = YES

\* confirm.lower() == 'yes'
Affirmative(answer) == Lower(answer) = YES

----------------------------------------------------------------------------
Init ==
    /\ pc = "main"
    /\ argv = <<>>
    /\ all_files = <<>>
    /\ episode_indices = <<>>
    /\ files_to_delete = <<>>
    /\ pos = 0
    /\ deleted = {}
    /\ tag_name = None
    /\ result = <<>>
    /\ exc = None
    /\ source_repo_id = None
    /\ target_repo_id = None
    /\ output_repo_id = None
    /\ target_dataset = NoDataset
    /\ source_dataset = NoDataset
    /\ merged_dataset = NoDataset
    /\ confirm = <<>>
    /\ prompts = <<>>
    /\ calls = <<>>
    /\ out = <<>>

\* an exception nobody catches ends the process
Raise(e) == pc' = "raised" /\ exc' = e

----------------------------------------------------------------------------
(* __main__: dispatch *)

Main_usage ==
    /\ pc = "main"
    /\ argv' \in {<<>>, <<"bogus">>, <<"create-tag">>, <<"delete-tag">>,
                 <<"delete-episodes">>, <<"merge-datasets">>}
    /\ pc' = "exit1"
    /\ out' = Append(out, <<"Usage">>)
    /\ UNCHANGED <<epVars, tag_name, result, exc, mergeVars, confirm, prompts, calls>>

Main_list_versions ==
    /\ pc = "main"
    /\ argv' = <<"list-versions">>
    /\ pc' = "lv_call"
    /\ UNCHANGED <<epVars, tag_name, result, exc, mergeVars, ioVars>>

Main_list_episodes ==
    /\ pc = "main"
    /\ argv' = <<"list-episodes">>
    /\ pc' = "le_list"
    /\ UNCHANGED <<epVars, tag_name, result, exc, mergeVars, ioVars>>

Main_create_tag ==
    /\ pc = "main"
    /\ \E t \in TagNames : tag_name' = t /\ argv' = <<"create-tag", t, "message">>
    /\ pc' = "ct_call"
    /\ UNCHANGED <<epVars, result, exc, mergeVars, ioVars>>

Main_delete_tag ==
    /\ pc = "main"
    /\ \E t \in TagNames : tag_name' = t /\ argv' = <<"delete-tag", t>>
    /\ pc' = "dt_confirm"
    /\ UNCHANGED <<epVars, result, exc, mergeVars, ioVars>>

Main_delete_episodes ==
    /\ pc = "main"
    /\ \E idxs \in IndexSeqs :
          episode_indices' = idxs /\ argv' = <<"delete-episodes", idxs>>
    /\ pc' = "de_list"
    /\ UNCHANGED <<all_files, files_to_delete, pos, deleted,
                   tag_name, result, exc, mergeVars, ioVars>>

Main_merge_datasets ==
    /\ pc = "main"
    /\ \E s \in Repos, t \in Repos \cup {None}, o \in Repos \cup {None} :
          /\ source_repo_id' = s
          /\ target_repo_id' = t
          /\ output_repo_id' = o
          /\ argv' = <<"merge-datasets", s, t, o>>
    /\ pc' = "mg_defaults"
    /\ UNCHANGED <<epVars, tag_name, result, exc,
                   target_dataset, source_dataset, merged_dataset, ioVars>>

----------------------------------------------------------------------------
(* create_tag, list_versions, delete_tag *)

CT_call ==
    /\ pc = "ct_call"
    /\ calls' = Append(calls, <<"create_tag", REPO_ID, tag_name, argv[3], "main">>)
    /\ \/ /\ out' = Append(out, <<"Tag created", tag_name>>)
          /\ pc' = "done"
          /\ UNCHANGED exc
       \/ /\ Raise("HfHubHTTPError")
          /\ UNCHANGED out
    /\ UNCHANGED <<argv, epVars, tag_name, result, mergeVars, confirm, prompts>>

LV_call ==
    /\ pc = "lv_call"
    /\ calls' = Append(calls, <<"list_repo_refs", REPO_ID>>)
    /\ \/ /\ \E tags \in SeqsUpTo(TagNames, 1) :
                out' = out \o <<<<"Branches:">>, <<"-", "main">>, <<"Tags:">>>>
                           \o [k \in 1..Len(tags) |-> <<"-", tags[k]>>]
          /\ pc' = "done"
          /\ UNCHANGED exc
       \/ /\ Raise("HfHubHTTPError")
          /\ UNCHANGED out
    /\ UNCHANGED <<argv, epVars, tag_name, result, mergeVars, confirm, prompts>>

\* variant: every answer but "no" deletes the tag
DT_confirm_unless_no ==
    /\ pc = "dt_confirm"
    /\ prompts' = Append(prompts, <<"Delete tag?", tag_name>>)
    /\ \E answer \in Answers :
          /\ confirm' = Append(confirm, answer)
          /\ pc' = IF Lower(answer) # <<"n", "o">> THEN "dt_call" ELSE "done"
    /\ UNCHANGED <<argv, epVars, tag_name, result, exc, mergeVars, calls, out>>

DT_confirm ==
    /\ pc = "dt_confirm"
    /\ prompts' = Append(prompts, <<"Delete tag?", tag_name>>)
    /\ \E answer \in Answers :
          /\ confirm' = Append(confirm, answer)
          /\ pc' = IF Affirmative(answer) THEN "dt_call" ELSE "done"
    /\ UNCHANGED <<argv, epVars, tag_name, result, exc, mergeVars, calls, out>>

DT_call ==
    /\ pc = "dt_call"
    /\ calls' = Append(calls, <<"delete_tag", REPO_ID, tag_name>>)
    /\ \/ /\ out' = Append(out, <<"Deleted tag", tag_name>>)
          /\ pc' = "done"
          /\ UNCHANGED exc
       \/ /\ Raise("HfHubHTTPError")
          /\ UNCHANGED out
    /\ UNCHANGED <<argv, epVars, tag_name, result, mergeVars, confirm, prompts>>

----------------------------------------------------------------------------
(* list_episodes *)

LE_list ==
    /\ pc = "le_list"
    /\ calls' = Append(calls, <<"list_repo_files", REPO_ID>>)
    /\ \/ /\ \E files \in Listings : all_files' = files
          /\ pc' = "le_compute"
          /\ UNCHANGED exc
       \/ /\ Raise("HfHubHTTPError")
          /\ UNCHANGED all_files
    /\ UNCHANGED <<argv, episode_indices, files_to_delete, pos, deleted,
                   tag_name, result, mergeVars, confirm, prompts, out>>

LE_compute ==
    /\ pc = "le_compute"
    /\ IF \A f \in SeqRange(ParquetFiles(all_files)) : IntParses(EpisodeField(f))
       THEN LET episode_numbers == EpisodeNumbers(all_files)
            IN  /\ out' = out \o <<<<"Found", Len(episode_numbers)>>>>
                              \o EpisodeLines(all_files, episode_numbers)
                /\ result' = <<episode_numbers>>
                /\ pc' = "done"
                /\ UNCHANGED exc
       ELSE /\ Raise("ValueError")
            /\ UNCHANGED <<out, result>>
    /\ UNCHANGED <<argv, epVars, tag_name, mergeVars, confirm, prompts, calls>>

----------------------------------------------------------------------------
(* delete_episodes *)

DE_list ==
    /\ pc = "de_list"
    /\ calls' = Append(calls, <<"list_repo_files", REPO_ID>>)
    /\ \/ /\ \E files \in Listings : all_files' = files
          /\ pc' = "de_select"
          /\ UNCHANGED exc
       \/ /\ Raise("HfHubHTTPError")
          /\ UNCHANGED all_files
    /\ UNCHANGED <<argv, episode_indices, files_to_delete, pos, deleted,
                   tag_name, result, mergeVars, confirm, prompts, out>>

\* variant: the empty selection does not return
DE_select_noreturn ==
    /\ pc = "de_select"
    /\ files_to_delete' = SelectFiles(all_files, episode_indices)
    /\ out' = IF files_to_delete' = <<>>
              THEN Append(out, <<"No files found for episodes", episode_indices>>)
              ELSE out \o <<<<"Files to be deleted", Len(episode_indices)>>>>
                       \o Breakdown(files_to_delete', episode_indices)
    /\ pc' = "de_confirm"
    /\ UNCHANGED <<argv, all_files, episode_indices, pos, deleted,
                   tag_name, result, exc, mergeVars, confirm, prompts, calls>>

DE_select ==
    /\ pc = "de_select"
    /\ files_to_delete' = SelectFiles(all_files, episode_indices)
    /\ IF files_to_delete' = <<>>
       THEN /\ out' = Append(out, <<"No files found for episodes", episode_indices>>)
            /\ pc' = "done"
       ELSE /\ out' = out \o <<<<"Files to be deleted", Len(episode_indices)>>>>
                          \o Breakdown(files_to_delete', episode_indices)
            /\ pc' = "de_confirm"
    /\ UNCHANGED <<argv, all_files, episode_indices, pos, deleted,
                   tag_name, result, exc, mergeVars, confirm, prompts, calls>>

DE_confirm ==
    /\ pc = "de_confirm"
    /\ prompts' = Append(prompts, <<"Delete total files?", Len(files_to_delete)>>)
    /\ \E answer \in Answers :
          /\ confirm' = Append(confirm, answer)
          /\ IF Affirmative(answer)
             THEN /\ out' = Append(out, <<"Deleting files...">>)
                  /\ pos' = 1
                  /\ pc' = "de_delete"
             ELSE /\ out' = Append(out, <<"Cancelled.">>)
                  /\ pos' = pos
                  /\ pc' = "done"
    /\ UNCHANGED <<argv, all_files, episode_indices, files_to_delete, deleted,
                   tag_name, result, exc, mergeVars, calls>>

\* variant: the first failed deletion ends the loop
DE_delete_abort ==
    /\ pc = "de_delete"
    /\ pos <= Len(files_to_delete)
    /\ LET file_path == files_to_delete[pos]
       IN  /\ calls' = Append(calls, <<"delete_file", file_path, REPO_ID>>)
           /\ \/ /\ file_path \notin deleted
                 /\ deleted' = deleted \cup {file_path}
                 /\ out' = Append(out, <<"Deleted", file_path>>)
                 /\ pos' = pos + 1
              \/ /\ deleted' = deleted
                 /\ out' = Append(out, <<"Failed to delete", file_path>>)
                 /\ pos' = Len(files_to_delete) + 1
    /\ UNCHANGED <<argv, pc, all_files, episode_indices, files_to_delete,
                   tag_name, result, exc, mergeVars, confirm, prompts>>

\* one iteration of the loop over files_to_delete; the service refuses to
\* delete a path that is no longer in the repository, and may refuse any other
DE_delete ==
    /\ pc = "de_delete"
    /\ pos <= Len(files_to_delete)
    /\ LET file_path == files_to_delete[pos]
       IN  /\ calls' = Append(calls, <<"delete_file", file_path, REPO_ID>>)
           /\ \/ /\ file_path \notin deleted
                 /\ deleted' = deleted \cup {file_path}
                 /\ out' = Append(out, <<"Deleted", file_path>>)
              \/ /\ deleted' = deleted
                 /\ out' = Append(out, <<"Failed to delete", file_path>>)
    /\ pos' = pos + 1
    /\ UNCHANGED <<argv, pc, all_files, episode_indices, files_to_delete,
                   tag_name, result, exc, mergeVars, confirm, prompts>>

DE_finish ==
    /\ pc = "de_delete"
    /\ pos > Len(files_to_delete)
    /\ out' = Append(out, <<"Successfully deleted episodes", episode_indices>>)
    /\ pc' = "done"
    /\ UNCHANGED <<argv, epVars, tag_name, result, exc, mergeVars, confirm, prompts, calls>>

----------------------------------------------------------------------------
(* merge_datasets *)

\* if target_repo_id is None: target_repo_id = REPO_ID
DefaultTarget(target) == IF target = None THEN REPO_ID ELSE target

\* variant: the output defaults to the hardcoded repository
DefaultOutput_hardcoded(output, target) == IF output = None THEN REPO_ID ELSE output

\* if output_repo_id is None: output_repo_id = target_repo_id
DefaultOutput(output, target) == IF output = None THEN target ELSE output

\* the list handed to concatenate_datasets
ConcatArgs(target, source) == <<target, source>>

\* datasets.concatenate_datasets: the rows of the datasets, in list order
RECURSIVE ConcatRows(_)
ConcatRows(dsets) ==
    IF dsets = <<>> THEN <<>> ELSE Head(dsets).rows \o ConcatRows(Tail(dsets))

concatenate_datasets(dsets) ==
    [rows |-> ConcatRows(dsets), features |-> dsets[1].features]

MG_defaults ==
    /\ pc = "mg_defaults"
    /\ target_repo_id' = DefaultTarget(target_repo_id)
    /\ output_repo_id' = DefaultOutput(output_repo_id, target_repo_id')
    /\ out' = Append(out, <<"=== Merging Datasets ===",
                            source_repo_id, target_repo_id', output_repo_id'>>)
    /\ pc' = "mg_load_target"
    /\ UNCHANGED <<argv, epVars, tag_name, result, exc, source_repo_id,
                   target_dataset, source_dataset, merged_dataset,
                   confirm, prompts, calls>>

MG_load_target ==
    /\ pc = "mg_load_target"
    /\ calls' = Append(calls, <<"load_dataset", target_repo_id>>)
    /\ \/ \E ds \in Datasets :
             /\ target_dataset' = ds
             /\ out' = Append(out, <<"Loaded target", Len(ds.rows)>>)
             /\ pc' = "mg_load_source"
       \/ /\ out' = Append(out, <<"Error loading target dataset">>)
          /\ pc' = "done"
          /\ UNCHANGED target_dataset
    /\ UNCHANGED <<argv, epVars, tag_name, result, exc, source_repo_id, target_repo_id,
                   output_repo_id, source_dataset, merged_dataset, confirm, prompts>>

MG_load_source ==
    /\ pc = "mg_load_source"
    /\ calls' = Append(calls, <<"load_dataset", source_repo_id>>)
    /\ \/ \E ds \in Datasets :
             /\ source_dataset' = ds
             /\ out' = Append(out, <<"Loaded source", Len(ds.rows)>>)
             /\ pc' = "mg_validate"
       \/ /\ out' = Append(out, <<"Error loading source dataset">>)
          /\ pc' = "done"
          /\ UNCHANGED source_dataset
    /\ UNCHANGED <<argv, epVars, tag_name, result, exc, source_repo_id, target_repo_id,
                   output_repo_id, target_dataset, merged_dataset, confirm, prompts>>

\* variant: the schema mismatch is reported but does not return
MG_validate_noreturn ==
    /\ pc = "mg_validate"
    /\ out' = IF target_dataset.features # source_dataset.features
              THEN Append(out, <<"Error: Dataset schemas don't match!",
                                 target_dataset.features, source_dataset.features>>)
              ELSE Append(out, <<"Schemas match">>)
    /\ pc' = "mg_confirm"
    /\ UNCHANGED <<argv, epVars, tag_name, result, exc, mergeVars, confirm, prompts, calls>>

MG_validate ==
    /\ pc = "mg_validate"
    /\ IF target_dataset.features # source_dataset.features
       THEN /\ out' = Append(out, <<"Error: Dataset schemas don't match!",
                                    target_dataset.features, source_dataset.features>>)
            /\ pc' = "done"
       ELSE /\ out' = out \o
                 << <<"Schemas match">>,
                    <<"Merge plan", Len(target_dataset.rows), Len(source_dataset.rows),
                      Len(target_dataset.rows) + Len(source_dataset.rows), output_repo_id>>,
                    IF output_repo_id = target_repo_id
                    THEN <<"Warning: This will UPDATE the target dataset">>
                    ELSE <<"Original datasets will remain unchanged">> >>
            /\ pc' = "mg_confirm"
    /\ UNCHANGED <<argv, epVars, tag_name, result, exc, mergeVars, confirm, prompts, calls>>

MG_confirm ==
    /\ pc = "mg_confirm"
    /\ prompts' = Append(prompts, <<"Proceed with merge?">>)
    /\ \E answer \in Answers :
          /\ confirm' = Append(confirm, answer)
          /\ IF ~Affirmative(answer)
             THEN /\ out' = Append(out, <<"Cancelled.">>)
                  /\ pc' = "done"
             ELSE /\ out' = Append(out, <<"Merging datasets...">>)
                  /\ pc' = "mg_concat"
    /\ UNCHANGED <<argv, epVars, tag_name, result, exc, mergeVars, calls>>

MG_concat ==
    /\ pc = "mg_concat"
    /\ calls' = Append(calls, <<"concatenate_datasets",
                                ConcatArgs(target_dataset, source_dataset)>>)
    /\ \/ /\ merged_dataset' =
                concatenate_datasets(ConcatArgs(target_dataset, source_dataset))
          /\ out' = Append(out, <<"Successfully merged", Len(merged_dataset'.rows)>>)
          /\ pc' = "mg_push"
       \/ /\ out' = Append(out, <<"Error merging datasets">>)
          /\ pc' = "done"
          /\ UNCHANGED merged_dataset
    /\ UNCHANGED <<argv, epVars, tag_name, result, exc, source_repo_id, target_repo_id,
                   output_repo_id, target_dataset, source_dataset, confirm, prompts>>

\* variant: a failed push does not return
MG_push_noreturn ==
    /\ pc = "mg_push"
    /\ calls' = Append(calls, <<"push_to_hub", output_repo_id, merged_dataset>>)
    /\ \/ out' = Append(out, <<"Successfully pushed", output_repo_id>>)
       \/ out' = Append(out, <<"Error pushing to hub">>)
    /\ pc' = "mg_summary"
    /\ UNCHANGED <<argv, epVars, tag_name, result, exc, mergeVars, confirm, prompts>>

MG_push ==
    /\ pc = "mg_push"
    /\ calls' = Append(calls, <<"push_to_hub", output_repo_id, merged_dataset>>)
    /\ \/ /\ out' = Append(out, <<"Successfully pushed", output_repo_id>>)
          /\ pc' = "mg_summary"
       \/ /\ out' = Append(out, <<"Error pushing to hub">>)
          /\ pc' = "done"
    /\ UNCHANGED <<argv, epVars, tag_name, result, exc, mergeVars, confirm, prompts>>

MG_summary ==
    /\ pc = "mg_summary"
    /\ out' = Append(out, <<"=== Merge Complete ===", Len(source_dataset.rows),
                            Len(target_dataset.rows), Len(merged_dataset.rows),
                            output_repo_id>>)
    /\ pc' = "done"
    /\ UNCHANGED <<argv, epVars, tag_name, result, exc, mergeVars, confirm, prompts, calls>>

----------------------------------------------------------------------------
Next ==
    \/ Main_usage
    \/ Main_list_versions
    \/ Main_list_episodes
    \/ Main_create_tag
    \/ Main_delete_tag
    \/ Main_delete_episodes
    \/ Main_merge_datasets
    \/ CT_call
    \/ LV_call
    \/ DT_confirm
    \/ DT_call
    \/ LE_list
    \/ LE_compute
    \/ DE_list
    \/ DE_select
    \/ DE_confirm
    \/ DE_delete
    \/ DE_finish
    \/ MG_defaults
    \/ MG_load_target
    \/ MG_load_source
    \/ MG_validate
    \/ MG_confirm
    \/ MG_concat
    \/ MG_push
    \/ MG_summary

Spec == Init /\ [][Next]_vars

TypeOK ==
    /\ pc \in {"main", "exit1", "done", "raised", "lv_call", "ct_call", "dt_confirm",
               "dt_call", "le_list", "le_compute", "de_list", "de_select",
               "de_confirm", "de_delete", "mg_defaults", "mg_load_target",
               "mg_load_source", "mg_validate", "mg_confirm", "mg_concat",
               "mg_push", "mg_summary"}
    /\ all_files \in Listings
    /\ episode_indices \in IndexSeqs
    /\ deleted \subseteq Paths
    /\ Len(confirm) <= 1

----------------------------------------------------------------------------
(* Vocabulary of the properties *)

command == IF argv = <<>> THEN None ELSE argv[1]

CallsTo(name) == SelectSeq(calls, LAMBDA c : c[1] = name)

DeletePaths == [k \in 1..Len(CallsTo("delete_file")) |-> CallsTo("delete_file")[k][2]]

MutatingCalls ==
    SelectSeq(calls, LAMBDA c :
        c[1] \in {"create_tag", "delete_tag", "delete_file", "push_to_hub"})

Printed(head) == \E k \in 1..Len(out) : out[k][1] = head

LastPrinted(head) == out # <<>> /\ out[Len(out)][1] = head

Declined == confirm # <<>> /\ Lower(confirm[1]) # YES

Accepted == confirm # <<>> /\ Lower(confirm[1]) = YES

\* the files of episode j under the naming convention episode_{j:06d}
ConventionSuffixes == {PARQUET, MP4, CAM1 \o MP4}
ConventionEpisodes == {3, 13, 100000, 1000000}

FilesOf(j) == {Path(Fmt06d(j), x) : x \in ConventionSuffixes}

ConventionNamed(f) == \E j \in ConventionEpisodes : f \in FilesOf(j)

\* the listing has been fetched and the selection computed from it
Selected ==
    /\ command = "delete-episodes"
    /\ pc \in {"de_confirm", "de_delete", "done"}

\* the paths of the listing that contain the marker of a requested index
MatchingPaths ==
    {f \in SeqRange(all_files) :
        \E k \in 1..Len(episode_indices) :
            Contains(f, episode_pattern(episode_indices[k]))}

Occurrences(s, x) == Cardinality({k \in 1..Len(s) : s[k] = x})

----------------------------------------------------------------------------
(* C1: in delete-episodes, when the answer to the confirmation prompt,      *)
(* lower-cased, is not 'yes', no delete_file call is ever issued and no     *)
(* file of the repository is removed.                                       *)
C1_DeclineDeletesNothing ==
    (command = "delete-episodes" /\ Declined) =>
        /\ CallsTo("delete_file") = <<>>
        /\ deleted = {}
        /\ pc = "done"

\* a run that selected three files, was answered "yes " and ended
C1_Witness ==
    /\ command = "delete-episodes"
    /\ pc = "done"
    /\ Len(files_to_delete) = 3
    /\ confirm = << <<"y", "e", "s", " ">> >>

(* C2: after an affirmative answer delete-episodes issues one delete_file   *)
(* call per selected file, one at a time and in selection order, whichever  *)
(* of the calls fail; a file once deleted stays deleted.                    *)
C2_PartialFailureIsolation ==
    (command = "delete-episodes" /\ Accepted) =>
        /\ pc \in {"de_delete", "done"}
        /\ Len(DeletePaths) = pos - 1
        /\ DeletePaths = SubSeq(files_to_delete, 1, pos - 1)
        /\ calls = <<calls[1]>> \o CallsTo("delete_file")
        /\ pc = "done" => DeletePaths = files_to_delete
        /\ \A k \in 1..Len(out) :
              out[k][1] = "Deleted" => out[k][2] \in deleted

\* three files selected, the deletion of the first failed, the other two succeeded
C2_Witness ==
    /\ command = "delete-episodes"
    /\ pc = "done"
    /\ Len(files_to_delete) = 3
    /\ Cardinality(SeqRange(files_to_delete)) = 3
    /\ \E k \in 1..Len(out) :
          out[k] = <<"Failed to delete", files_to_delete[1]>>
    /\ deleted = {files_to_delete[2], files_to_delete[3]}

(* C3: when both datasets load and their feature schemas differ,            *)
(* merge-datasets ends without showing a prompt, reading an answer,         *)
(* calling concatenate_datasets or calling push_to_hub.                     *)
C3_SchemaMismatchAborts ==
    ( /\ command = "merge-datasets"
      /\ target_dataset # NoDataset
      /\ source_dataset # NoDataset
      /\ target_dataset.features # source_dataset.features ) =>
        /\ pc \in {"mg_validate", "done"}
        /\ prompts = <<>>
        /\ confirm = <<>>
        /\ CallsTo("concatenate_datasets") = <<>>
        /\ CallsTo("push_to_hub") = <<>>

C3_Witness ==
    /\ command = "merge-datasets"
    /\ pc = "done"
    /\ target_dataset.features = "A"
    /\ source_dataset.features = "B"
    /\ LastPrinted("Error: Dataset schemas don't match!")

(* C4: when every listed file is named by the convention episode_{j:06d},   *)
(* delete-episodes([i]) selects only files of episode i, never a file of    *)
(* another episode j.                                                       *)
C4_NoCrossEpisodeSelection ==
    ( /\ Selected
      /\ Len(episode_indices) = 1
      /\ \A f \in SeqRange(all_files) : ConventionNamed(f) ) =>
        \A f \in SeqRange(files_to_delete) :
            /\ f \in FilesOf(episode_indices[1])
            /\ \A j \in ConventionEpisodes \ {episode_indices[1]} : f \notin FilesOf(j)

(* C5: for any listing the service returns, list-episodes returns a        *)
(* strictly ascending list of indices, and an index is in it exactly when   *)
(* some listed path ends in '.parquet', contains 'episode_' and has that    *)
(* integer between the marker and the extension.                            *)
Embedded(f) ==
    LET k == Find(f, EPISODE_)
    IN  SubSeq(f, k + Len(EPISODE_), Len(f) - Len(PARQUET))

Tabular(f) == EndsWith(f, PARQUET) /\ Contains(f, EPISODE_)

C5_ListEpisodesSortedExact ==
    ( /\ command = "list-episodes"
      /\ pc \in {"done", "raised"}
      /\ exc # "HfHubHTTPError" ) =>
        /\ pc = "done"
        /\ Len(result) = 1
        /\ \A a, b \in 1..Len(result[1]) : a < b => result[1][a] < result[1][b]
        /\ \A n \in SeqRange(result[1]) :
              \E f \in SeqRange(all_files) :
                  Tabular(f) /\ IsDigitString(Embedded(f)) /\ DigitsValue(Embedded(f)) = n
        /\ \A f \in SeqRange(all_files) :
              (Tabular(f) /\ IsDigitString(Embedded(f))) =>
                  DigitsValue(Embedded(f)) \in SeqRange(result[1])

(* C6: the selection of delete-episodes is the union of the files matching  *)
(* each index: every matching path is in it exactly once, the count in the  *)
(* prompt is the number of distinct matching paths, and after 'yes' every   *)
(* matching file gets exactly one delete_file call.                         *)
C6_SelectionIsUnion ==
    Selected =>
        /\ SeqRange(files_to_delete) = MatchingPaths
        /\ \A f \in MatchingPaths : Occurrences(files_to_delete, f) = 1
        /\ \A k \in 1..Len(prompts) : prompts[k][2] = Cardinality(MatchingPaths)
        /\ (pc = "done" /\ Accepted) =>
              \A f \in MatchingPaths : Occurrences(DeletePaths, f) = 1

(* C7: when the selection is empty (no index given, or no listed path       *)
(* contains a requested marker) delete-episodes warns and returns: no       *)
(* prompt is shown, no answer is read, no delete_file call is issued.       *)
C7_EmptySelectionNoAction ==
    (Selected /\ MatchingPaths = {}) =>
        /\ pc = "done"
        /\ out = << <<"No files found for episodes", episode_indices>> >>
        /\ prompts = <<>>
        /\ confirm = <<>>
        /\ calls = << <<"list_repo_files", REPO_ID>> >>
        /\ deleted = {}

\* delete-episodes([]) against a repository that has files
C7_Witness ==
    /\ command = "delete-episodes"
    /\ pc = "done"
    /\ episode_indices = <<>>
    /\ Len(all_files) = 3
    /\ Printed("No files found for episodes")

(* C8, as stated: in delete-tag, delete-episodes and merge-datasets a       *)
(* declined confirmation is reported as "Cancelled." and the operation ends *)
(* normally with no mutating service call.                                  *)
C8_DeclineReportsCancelled ==
    Declined =>
        /\ pc = "done"
        /\ LastPrinted("Cancelled.")
        /\ MutatingCalls = <<>>

(* C8, amended: a declined confirmation ends the operation normally with no *)
(* mutating service call in delete-tag, delete-episodes and merge-datasets; *)
(* delete-episodes and merge-datasets report it as "Cancelled.", delete-tag *)
(* prints nothing.                                                          *)
C8_DeclineEndsNormally ==
    Declined =>
        /\ command \in {"delete-tag", "delete-episodes", "merge-datasets"}
        /\ pc = "done"
        /\ exc = None
        /\ MutatingCalls = <<>>
        /\ deleted = {}
        /\ command \in {"delete-episodes", "merge-datasets"} => LastPrinted("Cancelled.")
        /\ command = "delete-tag" => out = <<>>

\* delete-tag answered "yes " (not stripped, so a decline)
C8_Witness ==
    /\ command = "delete-tag"
    /\ pc = "done"
    /\ confirm = << <<"y", "e", "s", " ">> >>

(* C9: merge-datasets pushes once, to the output repository -- the given    *)
(* output, else the given target, else the hardcoded repository -- a        *)
(* dataset of len(target)+len(source) rows, the target's rows followed by   *)
(* the source's; no other repository is written.                            *)
ExpectedDestination ==
    IF argv[4] # None THEN argv[4]
    ELSE IF argv[3] # None THEN argv[3]
    ELSE "argus-systems/pickup-carrot-openpi"

C9_MergePushesConcatToOutput ==
    (command = "merge-datasets" /\ MutatingCalls # <<>>) =>
        /\ Len(MutatingCalls) = 1
        /\ MutatingCalls[1][1] = "push_to_hub"
        /\ MutatingCalls[1][2] = ExpectedDestination
        /\ MutatingCalls[1][3].rows = target_dataset.rows \o source_dataset.rows
        /\ Len(MutatingCalls[1][3].rows)
              = Len(target_dataset.rows) + Len(source_dataset.rows)
        /\ deleted = {}

\* no --output, a --target other than the hardcoded repository, pushed
C9_Witness ==
    /\ command = "merge-datasets"
    /\ pc = "done"
    /\ argv[4] = None
    /\ argv[3] = "username/merged-dataset"
    /\ Printed("=== Merge Complete ===")
    /\ target_dataset.rows = <<3>>
    /\ source_dataset.rows = <<1, 2>>

(* C10: merge-datasets runs load target, load source, schema comparison,    *)
(* one prompt, concatenate, push, in this order; push_to_hub is called at   *)
(* most once and only after both loads, equal schemas, a 'yes' and a        *)
(* successful concatenation; after a failure or a decline nothing else is   *)
(* executed; the final summary is printed only after a successful push.     *)
CallNames == [k \in 1..Len(calls) |-> calls[k][1]]

MergeSteps == <<"load_dataset", "load_dataset", "concatenate_datasets", "push_to_hub">>

MergeErrors ==
    {"Error loading target dataset", "Error loading source dataset",
     "Error: Dataset schemas don't match!", "Cancelled.",
     "Error merging datasets", "Error pushing to hub"}

C10_MergeIsLinear ==
    command = "merge-datasets" =>
        /\ Len(calls) <= Len(MergeSteps)
        /\ CallNames = SubSeq(MergeSteps, 1, Len(calls))
        /\ Len(calls) >= 1 => calls[1][2] = target_repo_id
        /\ Len(calls) >= 2 => calls[2][2] = source_repo_id /\ target_dataset # NoDataset
        /\ Len(prompts) <= 1
        /\ prompts # <<>> =>
              /\ Len(calls) >= 2
              /\ source_dataset # NoDataset
              /\ target_dataset.features = source_dataset.features
        /\ Len(calls) >= 3 => Accepted /\ prompts # <<>>
        /\ Len(calls) >= 4 =>
              /\ merged_dataset # NoDataset
              /\ Printed("Successfully merged")
        /\ \A k \in 1..Len(out) :
              out[k][1] \in MergeErrors => (k = Len(out) /\ pc = "done")
        /\ Printed("=== Merge Complete ===") =>
              /\ Len(calls) = 4
              /\ Len(out) >= 2
              /\ out[Len(out) - 1][1] = "Successfully pushed"

C10_Witness ==
    /\ command = "merge-datasets"
    /\ pc = "done"
    /\ LastPrinted("=== Merge Complete ===")

====
